---- MODULE Spec2Model ----
(***************************************************************************)
(* Model of native/ex_jsonschema/src/lib.rs: the diagnostic enrichment of  *)
(* JSON Schema validation failures (pointer resolution, keyword            *)
(* classification, constraint extraction, context, annotations,            *)
(* suggestions) and the NIF entry points built on it.                      *)
(*                                                                         *)
(* Strings.  A Rust String is modelled as a sequence of tokens.  The token *)
(* "/" is the slash character; every other token stands for a run of one   *)
(* or more characters none of which is '/'.  The alphabet is chosen so     *)
(* every string of the model has exactly one tokenisation, hence equality  *)
(* of token sequences is equality of the strings.  "é" and "€" are single  *)
(* characters of 2 and 3 bytes in UTF-8.                                   *)
(*                                                                         *)
(* JSON.  A serde_json::Value is a record tagged by kind.  An object's     *)
(* fields are a function from keys (strings) to values.                    *)
(***************************************************************************)
EXTENDS Integers, Sequences, FiniteSets, TLC

VARIABLES
    schema,   \* CompiledSchema.schema of the live resource, or NoSchema
    pc,       \* "idle": no call in progress; "returned": a call has returned
    fn,       \* name of the function that returned
    args,     \* its arguments
    validator,\* the validator's run during the call: the instance it was given
              \* and the errors iter_errors yielded, or NotRun
    result    \* its return value

vars == <<schema, pc, fn, args, validator, result>>

----------------------------------------------------------------------------
(* Bounds of the model *)

MaxPathLen == 6

MaxErrors == 2

----------------------------------------------------------------------------
(* Option<T> *)

None == [some |-> FALSE]

Some(v) == [some |-> TRUE, value |-> v]

unwrap_or(opt, default) == IF opt.some THEN opt.value ELSE default

----------------------------------------------------------------------------
(* serde_json::Value *)

Null == [kind |-> "null"]

Bool(b) == [kind |-> "bool", b |-> b]

Number(n) == [kind |-> "number", n |-> n]

String(s) == [kind |-> "string", s |-> s]

Array(items) == [kind |-> "array", items |-> items]

Object(fields) == [kind |-> "object", fields |-> fields]

EmptyMap == <<>>

\* Value::get(&str): Some only on an object that has the key
value_get(v, key) ==
    IF v.kind = "object" /\ key \in DOMAIN v.fields
    THEN Some(v.fields[key])
    ELSE None

\* Value::as_str
as_str(v) == IF v.kind = "string" THEN Some(v.s) ELSE None

----------------------------------------------------------------------------
(* str primitives *)

Slash == "/"

\* bytes of one token in UTF-8
Utf8Len(c) ==
    CASE c = "é" -> 2
      [] c = "€" -> 3
      [] OTHER -> Len(c)

\* str::len: length in bytes
RECURSIVE str_len(_)
str_len(s) == IF s = <<>> THEN 0 ELSE Utf8Len(Head(s)) + str_len(Tail(s))

\* str::trim_start_matches('/'): every leading '/' is removed
RECURSIVE trim_start_matches(_)
trim_start_matches(s) ==
    IF s # <<>> /\ Head(s) = Slash THEN trim_start_matches(Tail(s)) ELSE s

\* position of the first '/' in s, 0 when there is none
FirstSlash(s) ==
    IF \E i \in 1..Len(s) : s[i] = Slash
    THEN CHOOSE i \in 1..Len(s) : s[i] = Slash /\ \A j \in 1..(i-1) : s[j] # Slash
    ELSE 0

\* position of the last '/' in s, 0 when there is none
LastSlash(s) ==
    IF \E i \in 1..Len(s) : s[i] = Slash
    THEN CHOOSE i \in 1..Len(s) : s[i] = Slash /\ \A j \in (i+1)..Len(s) : s[j] # Slash
    ELSE 0

\* str::split('/') collected: never empty, "" splits into [""]
RECURSIVE split(_)
split(s) ==
    LET i == FirstSlash(s) IN
    IF i = 0 THEN <<s>>
    ELSE <<SubSeq(s, 1, i - 1)>> \o split(SubSeq(s, i + 1, Len(s)))

\* Iterator::last
last(xs) == IF xs = <<>> THEN None ELSE Some(xs[Len(xs)])

\* s.rsplitn(2, '/').nth(1): what precedes the last '/', None without a '/'
rsplitn2_nth1(s) ==
    LET i == LastSlash(s) IN
    IF i = 0 THEN None ELSE Some(SubSeq(s, 1, i - 1))

DigitValue(c) ==
    CASE c = "0" -> 0 [] c = "1" -> 1 [] c = "2" -> 2 [] c = "3" -> 3
      [] c = "4" -> 4 [] c = "5" -> 5 [] c = "6" -> 6 [] c = "7" -> 7
      [] c = "8" -> 8 [] c = "9" -> 9 [] OTHER -> -1

RECURSIVE DigitsValue(_, _)
DigitsValue(ds, acc) ==
    IF ds = <<>> THEN acc ELSE DigitsValue(Tail(ds), acc * 10 + DigitValue(Head(ds)))

\* str::parse::<usize>: an optional '+', then one or more decimal digits.
\* (Overflow of usize needs 20 digits, beyond any segment of the model.)
parse_usize(s) ==
    LET ds == IF s # <<>> /\ Head(s) = "+" THEN Tail(s) ELSE s IN
    IF ds # <<>> /\ \A i \in 1..Len(ds) : DigitValue(ds[i]) >= 0
    THEN Some(DigitsValue(ds, 0))
    ELSE None

DigitChar(d) ==
    CASE d = 0 -> "0" [] d = 1 -> "1" [] d = 2 -> "2" [] d = 3 -> "3"
      [] d = 4 -> "4" [] d = 5 -> "5" [] d = 6 -> "6" [] d = 7 -> "7"
      [] d = 8 -> "8" [] OTHER -> "9"

\* decimal rendering of a non-negative integer
RECURSIVE Decimal(_)
Decimal(n) == IF n < 10 THEN <<DigitChar(n)>> ELSE Decimal(n \div 10) \o <<DigitChar(n % 10)>>

----------------------------------------------------------------------------
(* impl Display for serde_json::Value: compact JSON text *)

\* the keys of the model's objects, in the order serde_json's map iterates
ObjectKeyOrder ==
    << <<>>, <<"$schema">>, <<"0">>, <<"a">>, <<"a", "/", "a">>,
       <<"age">>, <<"default">>, <<"description">>, <<"examples">>,
       <<"format">>, <<"items">>, <<"maxItems">>, <<"minLength">>, <<"minimum">>,
       <<"name">>, <<"pattern">>, <<"properties">>, <<"required">>, <<"title">>,
       <<"type">>, <<"uniqueItems">> >>

RECURSIVE Display(_)
RECURSIVE DisplayItems(_)
RECURSIVE DisplayFields(_, _, _)

DisplayItems(items) ==
    IF items = <<>> THEN <<>>
    ELSE Display(Head(items))
         \o (IF Tail(items) = <<>> THEN <<>> ELSE <<",">>)
         \o DisplayItems(Tail(items))

DisplayFields(fields, i, first) ==
    IF i > Len(ObjectKeyOrder) THEN <<>>
    ELSE LET k == ObjectKeyOrder[i] IN
         IF k \in DOMAIN fields
         THEN (IF first THEN <<>> ELSE <<",">>)
              \o <<"\"">> \o k \o <<"\"", ":">> \o Display(fields[k])
              \o DisplayFields(fields, i + 1, FALSE)
         ELSE DisplayFields(fields, i + 1, first)

Display(v) ==
    CASE v.kind = "null" -> <<"null">>
      [] v.kind = "bool" -> IF v.b THEN <<"true">> ELSE <<"false">>
      [] v.kind = "number" -> IF v.n < 0 THEN <<"-">> \o Decimal(0 - v.n) ELSE Decimal(v.n)
      [] v.kind = "string" -> <<"\"">> \o v.s \o <<"\"">>
      [] v.kind = "array" -> <<"[">> \o DisplayItems(v.items) \o <<"]">>
      [] OTHER -> <<"{">> \o DisplayFields(v.fields, 1, TRUE) \o <<"}">>

----------------------------------------------------------------------------
(* get_value_at_path *)

\* a scalar arm that hands back the node reached so far
descend_scalar_partial(current) == Some(current)

\* the `_ => return None` arm: segments remain at a scalar
descend_scalar(current) == None

\* a segmentation that keeps the leading '/'
path_segments_untrimmed(path) == split(path)

\* path.trim_start_matches('/').split('/').collect()
path_segments(path) == split(trim_start_matches(path))

RECURSIVE Walk(_, _)
Walk(current, segments) ==
    IF segments = <<>> THEN Some(current)
    ELSE LET segment == Head(segments) IN
         CASE current.kind = "object" ->
                  IF segment \in DOMAIN current.fields
                  THEN Walk(current.fields[segment], Tail(segments))
                  ELSE None
           [] current.kind = "array" ->
                  LET index == parse_usize(segment) IN
                  IF index.some
                  THEN IF index.value < Len(current.items)
                       THEN Walk(current.items[index.value + 1], Tail(segments))
                       ELSE None
                  ELSE None
           [] OTHER -> descend_scalar(current)

get_value_at_path(value, path) ==
    IF path = <<>> \/ path = <<Slash>>
    THEN Some(value)
    ELSE Walk(value, path_segments(path))

----------------------------------------------------------------------------
(* jsonschema::ValidationError as the enrichment reads it:                 *)
(* [instance_path, schema_path, message], message being error.to_string()  *)

\* the fourteen keywords the classifier and the suggestion generator name
RecognizedKeywords ==
    { <<"type">>, <<"minimum">>, <<"maximum">>, <<"minLength">>, <<"maxLength">>,
      <<"pattern">>, <<"format">>, <<"required">>, <<"minItems">>, <<"maxItems">>,
      <<"enum">>, <<"const">>, <<"uniqueItems">>, <<"multipleOf">> }

\* every arm of the match returns the segment it matched
extract_keyword_from_error(error) ==
    LET schema_path == error.schema_path
        last_segment == last(split(schema_path)) IN
    IF last_segment.some
    THEN IF last_segment.value \in RecognizedKeywords
         THEN last_segment.value
         ELSE last_segment.value
    ELSE <<"unknown">>

\* the first arm without the two string-length keywords
DirectKeywords_without_lengths ==
    { <<"minimum">>, <<"maximum">>, <<"minItems">>, <<"maxItems">>, <<"const">>,
      <<"enum">>, <<"multipleOf">> }

\* the keywords whose value at schema_path is the constraint itself
DirectKeywords ==
    { <<"minimum">>, <<"maximum">>, <<"minLength">>, <<"maxLength">>, <<"minItems">>,
      <<"maxItems">>, <<"const">>, <<"enum">>, <<"multipleOf">> }

\* schema_path.rsplitn(2, '/').nth(1).unwrap_or("")
parent_path_of(schema_path) == unwrap_or(rsplitn2_nth1(schema_path), <<>>)

\* the "type" | "pattern" | "required" arms: the property read off the parent
parent_property(schema_doc, schema_path, name, fallback) ==
    LET parent_path == parent_path_of(schema_path)
        parent == get_value_at_path(schema_doc, parent_path) IN
    IF parent.some /\ value_get(parent.value, name).some
    THEN value_get(parent.value, name).value
    ELSE fallback

\* a `_` arm that hands back the resolved value
other_constraint_verbatim(keyword, schema_location) == schema_location

\* the `_` arm: format!("constraint: {}", keyword)
other_constraint(keyword, schema_location) == String(<<"constraint: ">> \o keyword)

get_schema_constraint_value(error, schema_doc) ==
    LET schema_path == error.schema_path
        keyword == extract_keyword_from_error(error)
        schema_location == get_value_at_path(schema_doc, schema_path) IN
    IF schema_location.some
    THEN CASE keyword \in DirectKeywords -> schema_location.value
           [] keyword = <<"type">> ->
                  parent_property(schema_doc, schema_path, <<"type">>, String(<<"unknown">>))
           [] keyword = <<"pattern">> ->
                  parent_property(schema_doc, schema_path, <<"pattern">>,
                                  String(<<"unknown pattern">>))
           [] keyword = <<"required">> ->
                  parent_property(schema_doc, schema_path, <<"required">>, Array(<<>>))
           [] OTHER -> other_constraint(keyword, schema_location.value)
    ELSE String(<<"unknown constraint">>)

\* extract_values_from_error: <<instance_value, schema_value>>
extract_values_from_error(error, instance, schema_doc) ==
    << unwrap_or(get_value_at_path(instance, error.instance_path), Null),
       get_schema_constraint_value(error, schema_doc) >>

----------------------------------------------------------------------------
(* build_error_context: HashMap<String, Value> as a function on its keys *)

\* the name of the instance's JSON kind
actual_type(instance_value) ==
    CASE instance_value.kind = "string" -> <<"string">>
      [] instance_value.kind = "number" -> <<"number">>
      [] instance_value.kind = "bool" -> <<"boolean">>
      [] instance_value.kind = "array" -> <<"array">>
      [] instance_value.kind = "object" -> <<"object">>
      [] OTHER -> <<"null">>

\* s.len() of a string instance, 0 otherwise
actual_length(instance_value) ==
    IF instance_value.kind = "string" THEN str_len(instance_value.s) ELSE 0

\* arr.len() of an array instance, 0 otherwise
actual_items(instance_value) ==
    IF instance_value.kind = "array" THEN Len(instance_value.items) ELSE 0

\* a fallback arm that records the constraint alone
default_context_constraint_only(instance_value, schema_value) ==
    ("constraint" :> schema_value)

\* the `_` arm of the match on keyword
default_context(instance_value, schema_value) ==
    ("constraint" :> schema_value)
    @@ ("expected" :> String(<<"constraint satisfied">>))
    @@ ("actual" :> instance_value)

\* the entries the match on keyword inserts
keyword_context(instance_value, schema_value, keyword) ==
    LET shown == Display(schema_value) IN
    CASE keyword = <<"type">> ->
             ("expected_type" :> schema_value)
             @@ ("actual_type" :> String(actual_type(instance_value)))
             @@ ("expected" :> String(<<"type: ">> \o shown))
             @@ ("actual" :> instance_value)
      [] keyword = <<"minimum">> ->
             ("minimum_value" :> schema_value)
             @@ ("actual_value" :> instance_value)
             @@ ("expected" :> String(<<"value >= ">> \o shown))
             @@ ("actual" :> instance_value)
      [] keyword = <<"maximum">> ->
             ("maximum_value" :> schema_value)
             @@ ("actual_value" :> instance_value)
             @@ ("expected" :> String(<<"value <= ">> \o shown))
             @@ ("actual" :> instance_value)
      [] keyword = <<"minLength">> ->
             ("minimum_length" :> schema_value)
             @@ ("actual_length" :> Number(actual_length(instance_value)))
             @@ ("expected" :> String(<<"length >= ">> \o shown))
             @@ ("actual" :> String(<<"length: ">> \o Decimal(actual_length(instance_value))))
      [] keyword = <<"maxLength">> ->
             ("maximum_length" :> schema_value)
             @@ ("actual_length" :> Number(actual_length(instance_value)))
             @@ ("expected" :> String(<<"length <= ">> \o shown))
             @@ ("actual" :> String(<<"length: ">> \o Decimal(actual_length(instance_value))))
      [] keyword = <<"pattern">> ->
             ("pattern" :> schema_value)
             @@ ("value" :> instance_value)
             @@ ("expected" :> String(<<"match pattern: ">> \o shown))
             @@ ("actual" :> instance_value)
      [] keyword = <<"required">> ->
             ("required_properties" :> schema_value)
             @@ ("expected" :> String(<<"all required properties present">>))
             @@ ("actual" :> String(<<"missing required property">>))
      [] keyword = <<"minItems">> ->
             ("minimum_items" :> schema_value)
             @@ ("actual_items" :> Number(actual_items(instance_value)))
             @@ ("expected" :> String(<<"items ">> \o <<">=">> \o <<" ">> \o shown))
             @@ ("actual" :> instance_value)
      [] keyword = <<"maxItems">> ->
             ("maximum_items" :> schema_value)
             @@ ("actual_items" :> Number(actual_items(instance_value)))
             @@ ("expected" :> String(<<"items ">> \o <<"<=">> \o <<" ">> \o shown))
             @@ ("actual" :> instance_value)
      [] OTHER -> default_context(instance_value, schema_value)

\* the two path entries inserted first
path_context(error) ==
    ("instance_path" :> String(error.instance_path))
    @@ ("schema_path" :> String(error.schema_path))

build_error_context(error, instance_value, schema_value, keyword) ==
    keyword_context(instance_value, schema_value, keyword) @@ path_context(error)

----------------------------------------------------------------------------
(* extract_annotations_from_error *)

\* m with key -> obj[name] inserted when obj has name
insert_if_present(m, key, obj, name) ==
    IF value_get(obj, name).some THEN (key :> value_get(obj, name).value) @@ m ELSE m

\* title, description, examples, default of the node at schema_path
own_annotations(schema_doc, schema_path) ==
    LET schema_location == get_value_at_path(schema_doc, schema_path) IN
    IF schema_location.some /\ schema_location.value.kind = "object"
    THEN LET o == schema_location.value
             a1 == insert_if_present(EmptyMap, "title", o, <<"title">>)
             a2 == insert_if_present(a1, "description", o, <<"description">>)
             a3 == insert_if_present(a2, "examples", o, <<"examples">>)
         IN insert_if_present(a3, "default", o, <<"default">>)
    ELSE EmptyMap

\* parent_title, parent_description of the node one level up
parent_annotations(schema_doc, schema_path, annotations) ==
    LET parent_path == parent_path_of(schema_path) IN
    IF parent_path # <<>>
    THEN LET parent_location == get_value_at_path(schema_doc, parent_path) IN
         IF parent_location.some /\ parent_location.value.kind = "object"
         THEN LET p == parent_location.value
                  a1 == insert_if_present(annotations, "parent_title", p, <<"title">>)
              IN insert_if_present(a1, "parent_description", p, <<"description">>)
         ELSE annotations
    ELSE annotations

extract_annotations_from_error(error, schema_doc) ==
    LET schema_path == error.schema_path
        own == own_annotations(schema_doc, schema_path)
        withParent == parent_annotations(schema_doc, schema_path, own) IN
    ("error_keyword" :> String(extract_keyword_from_error(error)))
    @@ ("validation_failed_at" :> String(error.instance_path))
    @@ withParent

----------------------------------------------------------------------------
(* generate_suggestions_for_error *)

\* str::contains
contains(s, pat) ==
    \E i \in 1..(Len(s) + 1 - Len(pat)) : SubSeq(s, i, i + Len(pat) - 1) = pat

\* a message is echoed only when shorter than this many bytes
MessageEchoLimit == 200

\* the "format" arm, with a hint for both kinds of message
format_suggestions_both(message) ==
    << <<"Use valid email format: user@domain.com">>,
       <<"Check the format requirements">> >>

\* the "format" arm
format_suggestions(message) ==
    IF contains(message, <<"email">>)
    THEN << <<"Use valid email format: user@domain.com">> >>
    ELSE << <<"Check the format requirements">> >>

generate_suggestions_for_error(error, keyword, instance_value, schema_value) ==
    LET shown == Display(schema_value) IN
    CASE keyword = <<"type">> ->
             << <<"Expected type: ">> \o unwrap_or(as_str(schema_value), <<"unknown">>) >>
      [] keyword = <<"minimum">> -> << <<"Value must be >= ">> \o shown >>
      [] keyword = <<"maximum">> -> << <<"Value must be <= ">> \o shown >>
      [] keyword = <<"minLength">> ->
             << <<"String must be at least ">> \o shown \o <<" characters">> >>
      [] keyword = <<"maxLength">> ->
             << <<"String must be at most ">> \o shown \o <<" characters">> >>
      [] keyword = <<"pattern">> -> << <<"String must match pattern: ">> \o shown >>
      [] keyword = <<"format">> -> format_suggestions(error.message)
      [] keyword = <<"required">> -> << <<"Add the missing required property">> >>
      [] keyword = <<"minItems">> ->
             << <<"Array must have at least ">> \o shown \o <<" items">> >>
      [] keyword = <<"maxItems">> ->
             << <<"Array must have at most ">> \o shown \o <<" items">> >>
      [] keyword = <<"enum">> -> << <<"Value must be one of: ">> \o shown >>
      [] keyword = <<"const">> -> << <<"Value must be exactly: ">> \o shown >>
      [] keyword = <<"uniqueItems">> -> << <<"Array items must be unique">> >>
      [] keyword = <<"multipleOf">> -> << <<"Value must be a multiple of ">> \o shown >>
      [] OTHER ->
             LET message == error.message
                 suggestions ==
                     << <<"Validation failed for '">> \o keyword \o <<"' constraint">>,
                        <<"Expected: ">> \o shown,
                        <<"Check the schema documentation for this constraint">>,
                        <<"Verify your data matches the expected format">> >>
             IN IF message # <<>> /\ str_len(message) < MessageEchoLimit
                THEN Append(suggestions, <<"Error details: ">> \o message)
                ELSE suggestions

----------------------------------------------------------------------------
(* impl CompiledSchema.  The validator is the external jsonschema engine:  *)
(* errs is the sequence validator.iter_errors(instance) yields, and        *)
(* validator.is_valid(instance) holds exactly when it yields nothing.      *)

Ok == [ok |-> TRUE]

Err(e) == [ok |-> FALSE, err |-> e]

is_valid(errs) == errs = <<>>

\* one ValidationErrorDetail
ValidationErrorDetail(error) ==
    [instance_path |-> error.instance_path,
     schema_path |-> error.schema_path,
     message |-> error.message]

\* one VerboseValidationErrorDetail
VerboseValidationErrorDetail(error, instance, schema_doc) ==
    LET keyword == extract_keyword_from_error(error)
        values == extract_values_from_error(error, instance, schema_doc)
        instance_value == values[1]
        schema_value == values[2]
    IN [instance_path |-> error.instance_path,
        schema_path |-> error.schema_path,
        message |-> error.message,
        keyword |-> keyword,
        instance_value |-> instance_value,
        schema_value |-> schema_value,
        context |-> build_error_context(error, instance_value, schema_value, keyword),
        annotations |-> extract_annotations_from_error(error, schema_doc),
        suggestions |-> generate_suggestions_for_error(error, keyword, instance_value,
                                                        schema_value)]

\* CompiledSchema::validate
CompiledSchema_validate(errs) ==
    IF is_valid(errs)
    THEN Ok
    ELSE Err([i \in 1..Len(errs) |-> ValidationErrorDetail(errs[i])])

\* a validate_verbose that skips the errors whose schema_path does not resolve
CompiledSchema_validate_verbose_skipping(schema_doc, instance, errs) ==
    IF is_valid(errs)
    THEN Ok
    ELSE LET kept == SelectSeq(errs, LAMBDA e :
                                 get_value_at_path(schema_doc, e.schema_path).some)
         IN Err([i \in 1..Len(kept) |-> VerboseValidationErrorDetail(kept[i], instance,
                                                                     schema_doc)])

\* CompiledSchema::validate_verbose
CompiledSchema_validate_verbose(schema_doc, instance, errs) ==
    IF is_valid(errs)
    THEN Ok
    ELSE Err([i \in 1..Len(errs) |-> VerboseValidationErrorDetail(errs[i], instance,
                                                                   schema_doc)])

----------------------------------------------------------------------------
(* Inputs *)

\* all strings over alphabet of at most n tokens
StringsUpTo(alphabet, n) == UNION { [1..k -> alphabet] : k \in 0..n }

PathAlphabet == {Slash, "a", "0", "1", "+"}

PathStrings == StringsUpTo(PathAlphabet, MaxPathLen)

\* documents the resolver is exercised on
DocNested ==
    Object((<<"a">> :> Array(<< Object(<<"a">> :> Number(1)), Number(2) >>))
           @@ (<<>> :> Object((<<"a">> :> Number(3)) @@ (<<>> :> Number(4))))
           @@ (<<"a", "/", "a">> :> Number(5))
           @@ (<<"0">> :> Number(6)))

DocArray ==
    Array(<< Number(7), Object((<<"a">> :> Null) @@ (<<"0">> :> String(<<"a">>))) >>)

DocScalar == String(<<"a">>)

DocPlain ==
    Object(<<"a">> :> Object((<<"a">> :> Array(<< Bool(TRUE) >>)) @@ (<<>> :> Number(9))))

ResolveDocs == {DocNested, DocArray, DocScalar, DocPlain}

\* {"type":"object","title":"Parent","properties":{"age":{"type":"integer","minimum":0,"title":"Age"}}}
SchemaParent ==
    Object((<<"type">> :> String(<<"object">>))
           @@ (<<"title">> :> String(<<"Parent">>))
           @@ (<<"properties">> :>
                 Object(<<"age">> :>
                   Object((<<"type">> :> String(<<"integer">>))
                          @@ (<<"minimum">> :> Number(0))
                          @@ (<<"title">> :> String(<<"Age">>))))))

\* {"type":"object","required":["name"],"properties":{"name":{"type":"string","minLength":2}}}
SchemaName ==
    Object((<<"type">> :> String(<<"object">>))
           @@ (<<"required">> :> Array(<< String(<<"name">>) >>))
           @@ (<<"properties">> :>
                 Object(<<"name">> :>
                   Object((<<"type">> :> String(<<"string">>))
                          @@ (<<"minLength">> :> Number(2))))))

\* a schema whose root and whose "items" subschema both carry every annotation
SchemaRoot ==
    Object((<<"title">> :> String(<<"Root">>))
           @@ (<<"description">> :> String(<<"root description">>))
           @@ (<<"examples">> :> Array(<< Number(1) >>))
           @@ (<<"default">> :> Number(0))
           @@ (<<"type">> :> String(<<"array">>))
           @@ (<<"minimum">> :> Number(0))
           @@ (<<"pattern">> :> String(<<"^a">>))
           @@ (<<"format">> :> String(<<"email">>))
           @@ (<<"uniqueItems">> :> Bool(TRUE))
           @@ (<<"items">> :>
                 Object((<<"title">> :> String(<<"Item">>))
                        @@ (<<"description">> :> String(<<"item description">>))
                        @@ (<<"examples">> :> Array(<< Number(2) >>))
                        @@ (<<"default">> :> Number(1))
                        @@ (<<"maxItems">> :> Number(1))
                        @@ (<<"format">> :> String(<<"email">>)))))

\* a schema with a subschema under the empty key
SchemaEmptyKey ==
    Object((<<"title">> :> String(<<"Top">>))
           @@ (<<>> :>
                 Object((<<"title">> :> String(<<"Hidden">>))
                        @@ (<<"type">> :> String(<<"string">>))
                        @@ (<<"pattern">> :> String(<<"^a">>))
                        @@ (<<"required">> :> Array(<< String(<<"name">>) >>))
                        @@ (<<"format">> :> String(<<"email">>)))))

SchemaDocs == {SchemaParent, SchemaName, SchemaRoot, SchemaEmptyKey}

\* "/k1/k2/..." for the keys given
RECURSIVE Pointer(_)
Pointer(keys) == IF keys = <<>> THEN <<>> ELSE <<Slash>> \o Head(keys) \o Pointer(Tail(keys))

SchemaPaths ==
    { <<>>, <<Slash>>, <<"type">>, <<Slash, Slash, "type">>, <<Slash, Slash, Slash, "type">>,
      <<Slash, Slash, Slash, "required">>, <<Slash, Slash, Slash, "pattern">>,
      <<Slash, Slash, Slash, "format">>, <<Slash, Slash, "title">>,
      Pointer(<< <<"type">> >>), Pointer(<< <<"minimum">> >>), Pointer(<< <<"pattern">> >>),
      Pointer(<< <<"required">> >>), Pointer(<< <<"format">> >>),
      Pointer(<< <<"uniqueItems">> >>), Pointer(<< <<"items">> >>),
      Pointer(<< <<"additionalProperties">> >>),
      Pointer(<< <<"items">>, <<"maxItems">> >>), Pointer(<< <<"items">>, <<"format">> >>),
      Pointer(<< <<"items">>, <<"type">> >>), Pointer(<< <<"items">>, <<"required">> >>),
      Pointer(<< <<"properties">>, <<"age">> >>),
      Pointer(<< <<"properties">>, <<"age">>, <<"minimum">> >>),
      Pointer(<< <<"properties">>, <<"age">>, <<"type">> >>),
      Pointer(<< <<"properties">>, <<"age">>, <<"pattern">> >>),
      Pointer(<< <<"properties">>, <<"name">>, <<"minLength">> >>),
      Pointer(<< <<"properties">>, <<"name">>, <<"type">> >>) }

InstancePaths == { <<>>, Pointer(<< <<"name">> >>), Pointer(<< <<"age">> >>) }

\* a run of 198 one-byte characters
LongRun ==
    "xxxxxxxxxxxxxxxxxxxxxxxxxxxxxxxxxxxxxxxxxxxxxxxxxxxxxxxxxxxxxxxxxxxxxxxxxxxxxxxxxxxxxxxxxxxxxxxxxxxxxxxxxxxxxxxxxxxxxxxxxxxxxxxxxxxxxxxxxxxxxxxxxxxxxxxxxxxxxxxxxxxxxxxxxxxxxxxxxxxxxxxxxxxxxxxxxxxxxx"

\* messages: empty, short, and of 199 and 200 bytes around the echo limit
Messages ==
    { <<>>, <<"\"A\" is shorter than 2 characters">>,
      <<"\"A\" is not a valid ", "email">>,
      <<LongRun, "A">>, <<LongRun, "A", "A">>, <<LongRun, "é">> }

\* instance documents
Instances ==
    { Object(<<"name">> :> String(<<"A">>)),
      Object(EmptyMap),
      Object(<<"age">> :> Number(-1)),
      Object(<<"name">> :> String(<<"é">>)),
      Null }

\* values found at an instance path
InstanceValues ==
    { String(<<"A">>), String(<<"é">>), String(<<"€", "A">>), String(<<>>), Number(-1),
      Bool(FALSE), Null, Array(<<>>), Array(<< Number(1), Number(2) >>),
      Object(<<"name">> :> String(<<"A">>)) }

\* values found as a constraint
SchemaValues ==
    { Number(2), String(<<"string">>), Array(<< String(<<"name">>) >>),
      String(<<"unknown constraint">>), Object(<<"type">> :> String(<<"string">>)) }

Keywords == RecognizedKeywords \cup { <<"additionalProperties">>, <<"age">>, <<>> }

\* failures the validator yields in the entry-point runs
EngineFailures ==
    [instance_path : { <<>>, Pointer(<< <<"name">> >>) },
     schema_path : { Pointer(<< <<"properties">>, <<"name">>, <<"minLength">> >>),
                     Pointer(<< <<"properties">>, <<"age">>, <<"minimum">> >>),
                     Pointer(<< <<"items">>, <<"maxItems">> >>),
                     Pointer(<< <<"required">> >>),
                     Pointer(<< <<"properties">>, <<"age">>, <<"type">> >>),
                     Pointer(<< <<"items">>, <<"format">> >>),
                     <<Slash, Slash, Slash, "type">> },
     message : { <<"\"A\" is shorter than 2 characters">> }]

ErrorLists == UNION { [1..k -> EngineFailures] : k \in 0..MaxErrors }

\* JSON text, as serde_json::from_str sees it: the text of a value, or malformed
Text(v) == [parses |-> TRUE, value |-> v]

Malformed == [parses |-> FALSE]

from_str(text) == IF text.parses THEN [ok |-> TRUE, value |-> text.value] ELSE [ok |-> FALSE]

InstanceTexts == { Text(v) : v \in Instances } \cup {Malformed}

SchemaTexts == { Text(v) : v \in SchemaDocs } \cup {Malformed}

\* "scheme://host/" followed by the tokens given
Url(scheme, rest) == <<scheme, Slash, Slash, "json-schema.org", Slash>> \o rest

\* values of "$schema": the published meta-schema URLs, the slash forms of the
\* older drafts, URLs naming no draft or two, and an identifier inside a word
SchemaUrls ==
    { Url("http:", <<"draft-04", Slash, "schema#">>),
      Url("http:", <<"draft-06", Slash, "schema#">>),
      Url("http:", <<"draft-07", Slash, "schema#">>),
      Url("https:", <<"draft", Slash, "2019-09", Slash, "schema">>),
      Url("https:", <<"draft", Slash, "2020-12", Slash, "schema">>),
      Url("http:", <<"draft", Slash, "04", Slash, "schema#">>),
      Url("http:", <<"draft", Slash, "06", Slash, "schema#">>),
      Url("http:", <<"draft", Slash, "07", Slash, "schema#">>),
      Url("https:", <<"draft", Slash, "next", Slash, "schema">>),
      Url("http:", <<"Draft-07", Slash, "schema#">>),
      Url("http:", <<"2020-12", Slash, "draft-07", Slash, "schema#">>),
      Url("http:", <<"draft-07", Slash, "draft", Slash, "04">>),
      Url("http:", <<"2020-12", Slash, "2019-09">>),
      <<"my", "draft-06", "x">>,
      <<"draft", Slash>>,
      <<>> }

\* schema documents given to draft detection
DraftDocs ==
    { Object((<<"$schema">> :> String(url)) @@ (<<"type">> :> String(<<"object">>)))
        : url \in SchemaUrls }
    \cup { Object(<<"$schema">> :> Number(7)),
           Object(<<"$schema">> :> Null),
           Object(<<"$schema">> :>
                    Array(<< String(Url("http:", <<"draft-07", Slash, "schema#">>)) >>)),
           Object(<<"properties">> :>
                    Object(<<"$schema">> :>
                             String(Url("http:", <<"draft-07", Slash, "schema#">>)))),
           Object(EmptyMap),
           Array(<< String(Url("http:", <<"draft-07", Slash, "schema#">>)) >>),
           String(Url("http:", <<"draft-04", Slash, "schema#">>)),
           Bool(TRUE),
           Null }
    \cup SchemaDocs

DraftTexts == { Text(v) : v \in DraftDocs } \cup {Malformed}

----------------------------------------------------------------------------
(* NIF entry points.  Replies are the terms handed to the host. *)

NoSchema == [kind |-> "none"]

NotRun == [ran |-> FALSE]

Ran(instance, errs) == [ran |-> TRUE, instance |-> instance, errs |-> errs]

AtomOk == [atom |-> "ok"]

AtomError == [atom |-> "error"]

ErrorReason(reason) == [atom |-> "error", reason |-> reason]

ErrorList(list) == [atom |-> "error", list |-> list]

ErrorMap(type, message) == [atom |-> "error", type |-> type, message |-> message]

OkResource(doc) == [atom |-> "ok", resource |-> doc]

\* compile_schema: compiles is the engine's verdict on the parsed document
compile_schema(schema_json, compiles) ==
    LET parsed == from_str(schema_json) IN
    IF ~parsed.ok THEN ErrorMap("json_parse_error", "Invalid JSON")
    ELSE IF ~compiles THEN ErrorMap("compilation_error", "Schema compilation failed")
    ELSE OkResource(parsed.value)

validate(instance_json, errs) ==
    LET parsed == from_str(instance_json) IN
    IF ~parsed.ok THEN AtomError
    ELSE IF CompiledSchema_validate(errs).ok THEN AtomOk ELSE AtomError

\* the map validate_detailed builds for one ValidationErrorDetail
detailed_error_map(error) ==
    [instance_path |-> error.instance_path,
     schema_path |-> error.schema_path,
     message |-> error.message]

validate_detailed(instance_json, errs) ==
    LET parsed == from_str(instance_json) IN
    IF ~parsed.ok THEN ErrorReason("json_parse_error")
    ELSE LET r == CompiledSchema_validate(errs) IN
         IF r.ok THEN AtomOk
         ELSE ErrorList([i \in 1..Len(r.err) |-> detailed_error_map(r.err[i])])

\* valid answering false for a text that does not parse
valid_rejecting_unparsable(instance_json, errs) == instance_json.parses /\ is_valid(errs)

\* valid: errs are the validator's errors for the parsed instance, or for
\* Null when the text does not parse
valid(instance_json, errs) == is_valid(errs)

\* the map validate_verbose builds for one VerboseValidationErrorDetail
verbose_error_map(error) ==
    [instance_path |-> error.instance_path,
     schema_path |-> error.schema_path,
     message |-> error.message,
     keyword |-> error.keyword,
     instance_value |-> error.instance_value,
     schema_value |-> error.schema_value,
     context |-> error.context,
     annotations |-> error.annotations,
     suggestions |-> error.suggestions]

validate_verbose(schema_doc, instance_json, errs) ==
    LET parsed == from_str(instance_json) IN
    IF ~parsed.ok THEN ErrorReason("json_parse_error")
    ELSE LET r == CompiledSchema_validate_verbose(schema_doc, parsed.value, errs) IN
         IF r.ok THEN AtomOk
         ELSE ErrorList([i \in 1..Len(r.err) |-> verbose_error_map(r.err[i])])

OkDraft(draft) == [atom |-> "ok", draft |-> draft]

\* the match on the URL with the hyphenated identifiers only
draft_of_url_hyphen_only(url) ==
    IF contains(url, <<"draft-04">>) THEN "draft4"
    ELSE IF contains(url, <<"draft-06">>) THEN "draft6"
    ELSE IF contains(url, <<"draft-07">>) THEN "draft7"
    ELSE IF contains(url, <<"2019-09">>) THEN "draft201909"
    ELSE IF contains(url, <<"2020-12">>) THEN "draft202012"
    ELSE "draft202012"

\* the match on the URL: the first arm whose guard holds
draft_of_url(url) ==
    IF contains(url, <<"draft-04">>) \/ contains(url, <<"draft", Slash, "04">>)
    THEN "draft4"
    ELSE IF contains(url, <<"draft-06">>) \/ contains(url, <<"draft", Slash, "06">>)
    THEN "draft6"
    ELSE IF contains(url, <<"draft-07">>) \/ contains(url, <<"draft", Slash, "07">>)
    THEN "draft7"
    ELSE IF contains(url, <<"2019-09">>) THEN "draft201909"
    ELSE IF contains(url, <<"2020-12">>) THEN "draft202012"
    ELSE "draft202012"

detect_draft_from_schema(schema_json) ==
    LET parsed == from_str(schema_json) IN
    IF ~parsed.ok THEN ErrorMap("json_parse_error", "Invalid JSON")
    ELSE LET schema_url == value_get(parsed.value, <<"$schema">>) IN
         IF schema_url.some /\ as_str(schema_url.value).some
         THEN OkDraft(draft_of_url(as_str(schema_url.value).value))
         ELSE OkDraft("draft202012")

----------------------------------------------------------------------------
(* The state machine of the entry points *)

Init ==
    /\ schema = NoSchema
    /\ pc = "idle"
    /\ fn = "none"
    /\ args = <<>>
    /\ validator = NotRun
    /\ result = <<>>

Return ==
    /\ pc = "returned"
    /\ pc' = "idle"
    /\ fn' = "none"
    /\ args' = <<>>
    /\ validator' = NotRun
    /\ result' = <<>>
    /\ UNCHANGED schema

CallCompileSchema ==
    /\ pc = "idle"
    /\ \E schema_json \in SchemaTexts, compiles \in BOOLEAN :
          LET reply == compile_schema(schema_json, compiles) IN
          /\ fn' = "compile_schema"
          /\ args' = [schema_json |-> schema_json]
          /\ result' = reply
          /\ schema' = IF reply.atom = "ok" THEN reply.resource ELSE schema
    /\ validator' = NotRun
    /\ pc' = "returned"

CallValidate ==
    /\ pc = "idle"
    /\ schema # NoSchema
    /\ \E instance_json \in InstanceTexts, errs \in ErrorLists :
          /\ fn' = "validate"
          /\ args' = [instance_json |-> instance_json]
          /\ validator' = IF instance_json.parses
                          THEN Ran(instance_json.value, errs) ELSE NotRun
          /\ result' = validate(instance_json, errs)
    /\ pc' = "returned"
    /\ UNCHANGED schema

CallValidateDetailed ==
    /\ pc = "idle"
    /\ schema # NoSchema
    /\ \E instance_json \in InstanceTexts, errs \in ErrorLists :
          /\ fn' = "validate_detailed"
          /\ args' = [instance_json |-> instance_json]
          /\ validator' = IF instance_json.parses
                          THEN Ran(instance_json.value, errs) ELSE NotRun
          /\ result' = validate_detailed(instance_json, errs)
    /\ pc' = "returned"
    /\ UNCHANGED schema

CallValidateVerbose ==
    /\ pc = "idle"
    /\ schema # NoSchema
    /\ \E instance_json \in InstanceTexts, errs \in ErrorLists :
          /\ fn' = "validate_verbose"
          /\ args' = [instance_json |-> instance_json]
          /\ validator' = IF instance_json.parses
                          THEN Ran(instance_json.value, errs) ELSE NotRun
          /\ result' = validate_verbose(schema, instance_json, errs)
    /\ pc' = "returned"
    /\ UNCHANGED schema

\* valid hands Null to the validator when the text does not parse
CallValid ==
    /\ pc = "idle"
    /\ schema # NoSchema
    /\ \E instance_json \in InstanceTexts, errs \in ErrorLists :
          /\ fn' = "valid"
          /\ args' = [instance_json |-> instance_json]
          /\ validator' = Ran(IF instance_json.parses THEN instance_json.value ELSE Null,
                              errs)
          /\ result' = valid(instance_json, errs)
    /\ pc' = "returned"
    /\ UNCHANGED schema

CallDetectDraft ==
    /\ pc = "idle"
    /\ \E schema_json \in DraftTexts :
          /\ fn' = "detect_draft_from_schema"
          /\ args' = [schema_json |-> schema_json]
          /\ result' = detect_draft_from_schema(schema_json)
    /\ validator' = NotRun
    /\ pc' = "returned"
    /\ UNCHANGED schema

Next ==
    \/ CallCompileSchema
    \/ CallDetectDraft
    \/ CallValidate
    \/ CallValidateDetailed
    \/ CallValidateVerbose
    \/ CallValid
    \/ Return

Spec == Init /\ [][Next]_vars

----------------------------------------------------------------------------
(* The enrichment functions applied to inputs of their own *)

ResolveInputs == (ResolveDocs \X PathStrings) \cup (SchemaDocs \X SchemaPaths)

CallGetValueAtPath ==
    /\ pc = "idle"
    /\ \E input \in ResolveInputs :
          /\ fn' = "get_value_at_path"
          /\ args' = [value |-> input[1], path |-> input[2]]
          /\ result' = get_value_at_path(input[1], input[2])
    /\ pc' = "returned"
    /\ UNCHANGED <<schema, validator>>

CallExtractKeyword ==
    /\ pc = "idle"
    /\ \E schema_path \in PathStrings \cup SchemaPaths :
          LET error == [instance_path |-> <<>>, schema_path |-> schema_path,
                        message |-> <<>>] IN
          /\ fn' = "extract_keyword_from_error"
          /\ args' = [error |-> error]
          /\ result' = extract_keyword_from_error(error)
    /\ pc' = "returned"
    /\ UNCHANGED <<schema, validator>>

CallGetSchemaConstraintValue ==
    /\ pc = "idle"
    /\ \E schema_doc \in SchemaDocs, schema_path \in SchemaPaths :
          LET error == [instance_path |-> <<>>, schema_path |-> schema_path,
                        message |-> <<>>] IN
          /\ fn' = "get_schema_constraint_value"
          /\ args' = [error |-> error, schema |-> schema_doc]
          /\ result' = get_schema_constraint_value(error, schema_doc)
    /\ pc' = "returned"
    /\ UNCHANGED <<schema, validator>>

CallBuildErrorContext ==
    /\ pc = "idle"
    /\ \E keyword \in Keywords, instance_value \in InstanceValues,
          schema_value \in SchemaValues, instance_path \in InstancePaths :
          LET error == [instance_path |-> instance_path,
                        schema_path |-> <<Slash>> \o keyword,
                        message |-> <<>>] IN
          /\ fn' = "build_error_context"
          /\ args' = [error |-> error, instance_value |-> instance_value,
                      schema_value |-> schema_value, keyword |-> keyword]
          /\ result' = build_error_context(error, instance_value, schema_value, keyword)
    /\ pc' = "returned"
    /\ UNCHANGED <<schema, validator>>

CallExtractAnnotations ==
    /\ pc = "idle"
    /\ \E schema_doc \in SchemaDocs, schema_path \in SchemaPaths,
          instance_path \in InstancePaths :
          LET error == [instance_path |-> instance_path, schema_path |-> schema_path,
                        message |-> <<>>] IN
          /\ fn' = "extract_annotations_from_error"
          /\ args' = [error |-> error, schema |-> schema_doc]
          /\ result' = extract_annotations_from_error(error, schema_doc)
    /\ pc' = "returned"
    /\ UNCHANGED <<schema, validator>>

CallGenerateSuggestions ==
    /\ pc = "idle"
    /\ \E keyword \in Keywords, schema_value \in SchemaValues, message \in Messages :
          LET error == [instance_path |-> <<>>, schema_path |-> <<Slash>> \o keyword,
                        message |-> message] IN
          /\ fn' = "generate_suggestions_for_error"
          /\ args' = [error |-> error, keyword |-> keyword, instance_value |-> Null,
                      schema_value |-> schema_value]
          /\ result' = generate_suggestions_for_error(error, keyword, Null, schema_value)
    /\ pc' = "returned"
    /\ UNCHANGED <<schema, validator>>

NextFn ==
    \/ CallGetValueAtPath
    \/ CallExtractKeyword
    \/ CallGetSchemaConstraintValue
    \/ CallBuildErrorContext
    \/ CallExtractAnnotations
    \/ CallGenerateSuggestions
    \/ Return

SpecFn == Init /\ [][NextFn]_vars

----------------------------------------------------------------------------
(* Properties.  Returned(f) marks the states in which a call of f has      *)
(* returned: args holds its arguments and result its value.                *)

Returned(f) == pc = "returned" /\ fn = f

AgeMinimumPath == Pointer(<< <<"properties">>, <<"age">>, <<"minimum">> >>)

\* C1: annotation extraction on the Parent/Age schema for a failure at
\* /properties/age/minimum returns title = "Age" and parent_title = "Parent".
C1_AnnotationInheritance ==
    (/\ Returned("extract_annotations_from_error")
     /\ args.schema = SchemaParent
     /\ args.error.schema_path = AgeMinimumPath)
    => /\ "title" \in DOMAIN result
       /\ result["title"] = String(<<"Age">>)
       /\ "parent_title" \in DOMAIN result
       /\ result["parent_title"] = String(<<"Parent">>)

----------------------------------------------------------------------------
(* Manual traversal: a chain is a sequence of steps, each an object key or *)
(* an array index.                                                         *)

KeyStep(k) == [step |-> "key", key |-> k]

IndexStep(i) == [step |-> "index", index |-> i]

\* the chains of steps that exist in v
RECURSIVE ChainsOf(_)
ChainsOf(v) ==
    {<<>>} \cup
    CASE v.kind = "object" ->
             UNION { { <<KeyStep(k)>> \o c : c \in ChainsOf(v.fields[k]) } :
                     k \in DOMAIN v.fields }
      [] v.kind = "array" ->
             UNION { { <<IndexStep(i - 1)>> \o c : c \in ChainsOf(v.items[i]) } :
                     i \in 1..Len(v.items) }
      [] OTHER -> {}

\* the sub-value a chain leads to
RECURSIVE Follow(_, _)
Follow(v, chain) ==
    IF chain = <<>> THEN v
    ELSE LET s == Head(chain) IN
         Follow(IF s.step = "key" THEN v.fields[s.key] ELSE v.items[s.index + 1],
                Tail(chain))

SegmentOf(s) == IF s.step = "key" THEN s.key ELSE Decimal(s.index)

\* '/' + segment, concatenated along the chain
RECURSIVE PathOf(_)
PathOf(chain) ==
    IF chain = <<>> THEN <<>>
    ELSE <<Slash>> \o SegmentOf(Head(chain)) \o PathOf(Tail(chain))

HasSlash(s) == \E i \in 1..Len(s) : s[i] = Slash

\* no key of the chain contains '/', and its first segment is not empty
PlainChain(chain) ==
    /\ \A i \in 1..Len(chain) : ~HasSlash(SegmentOf(chain[i]))
    /\ chain # <<>> => SegmentOf(chain[1]) # <<>>

\* C2 as stated: the path of every existing chain, empty keys and keys with
\* '/' included, resolves to the sub-value the chain leads to.
C2_RoundTripEveryKey ==
    Returned("get_value_at_path") =>
        \A chain \in ChainsOf(args.value) :
            PathOf(chain) = args.path => result = Some(Follow(args.value, chain))

\* C2 (amended): the path of every existing chain in which no key contains '/'
\* and whose first segment is not the empty string resolves to exactly the
\* sub-value the chain leads to.
C2_RoundTrip ==
    Returned("get_value_at_path") =>
        \A chain \in ChainsOf(args.value) :
            (PlainChain(chain) /\ PathOf(chain) = args.path)
            => result = Some(Follow(args.value, chain))

\* a chain through an object key and an array index was resolved
C2_Witness ==
    /\ Returned("get_value_at_path")
    /\ \E chain \in ChainsOf(args.value) :
          /\ PlainChain(chain)
          /\ Len(chain) >= 2
          /\ \E i \in 1..Len(chain) : chain[i].step = "index"
          /\ PathOf(chain) = args.path
          /\ result = Some(Follow(args.value, chain))

----------------------------------------------------------------------------
(* Descent segment by segment, for the failure cases of the resolver *)

\* the child of node a segment names, None when it names none
Child(node, segment) ==
    CASE node.kind = "object" ->
             IF segment \in DOMAIN node.fields THEN Some(node.fields[segment]) ELSE None
      [] node.kind = "array" ->
             IF parse_usize(segment).some /\ parse_usize(segment).value < Len(node.items)
             THEN Some(node.items[parse_usize(segment).value + 1])
             ELSE None
      [] OTHER -> None

\* the node reached by the first k of the segments, None once a step fails
RECURSIVE Reach(_, _, _)
Reach(v, segments, k) ==
    IF k = 0 THEN Some(v)
    ELSE LET before == Reach(v, segments, k - 1) IN
         IF before.some THEN Child(before.value, segments[k]) ELSE None

\* the segments of the path of the returned get_value_at_path call
CallSegments == split(trim_start_matches(args.path))

\* the k-th segment meets a node at which the descent cannot go on
MissingKeyAt(k) ==
    LET node == Reach(args.value, CallSegments, k - 1) IN
    node.some /\ node.value.kind = "object" /\ CallSegments[k] \notin DOMAIN node.value.fields

IndexOutOfRangeAt(k) ==
    LET node == Reach(args.value, CallSegments, k - 1) IN
    /\ node.some /\ node.value.kind = "array"
    /\ parse_usize(CallSegments[k]).some
    /\ parse_usize(CallSegments[k]).value >= Len(node.value.items)

NonNumericAt(k) ==
    LET node == Reach(args.value, CallSegments, k - 1) IN
    node.some /\ node.value.kind = "array" /\ ~parse_usize(CallSegments[k]).some

ScalarAt(k) ==
    LET node == Reach(args.value, CallSegments, k - 1) IN
    node.some /\ node.value.kind \notin {"object", "array"}

WalksSegments == args.path # <<>> /\ args.path # <<Slash>>

----------------------------------------------------------------------------

ContextKeys == {"expected", "actual", "instance_path", "schema_path"}

\* C4: for every keyword, recognized, unrecognized or empty, and every
\* instance_value / schema_value pair, the context map has the keys expected,
\* actual, instance_path and schema_path.
C4_ContextCompleteness ==
    Returned("build_error_context") => ContextKeys \subseteq DOMAIN result

\* a context was built for a keyword outside the recognized set
C4_Witness ==
    /\ Returned("build_error_context")
    /\ args.keyword \notin RecognizedKeywords
    /\ ContextKeys \subseteq DOMAIN result

----------------------------------------------------------------------------
(* The last segment of a schema path and the path one level up *)

\* what follows the last '/', the whole path when it has none
FinalSegment(path) == SubSeq(path, LastSlash(path) + 1, Len(path))

\* the path with its last segment removed
ParentPath(path) ==
    IF LastSlash(path) = 0 THEN <<>> ELSE SubSeq(path, 1, LastSlash(path) - 1)

\* the property called name of the object at the parent path, if there is one
PropertyOfParent(schema_doc, path, name) ==
    LET parent == get_value_at_path(schema_doc, ParentPath(path)) IN
    IF parent.some THEN value_get(parent.value, name) ELSE None

UpOneLevelKeywords == { <<"type">>, <<"pattern">>, <<"required">> }

\* C5: for type, pattern and required the schema_value is the property of
\* that name on the object at the parent path; when the parent or the
\* property is absent, also when schema_path does not resolve, it is a
\* placeholder string for type and pattern and the empty array for required.
C5_UpOneLevel ==
    (/\ Returned("get_schema_constraint_value")
     /\ FinalSegment(args.error.schema_path) \in UpOneLevelKeywords)
    => LET keyword == FinalSegment(args.error.schema_path)
           property == PropertyOfParent(args.schema, args.error.schema_path, keyword)
       IN IF property.some THEN result = property.value
          ELSE IF keyword = <<"required">> THEN result = Array(<<>>)
          ELSE result.kind = "string"

\* the keywords the constraint extractor has an arm for
ExtractorKeywords == DirectKeywords \cup UpOneLevelKeywords

\* C6 as stated: for a schema_path ending in any other keyword (format,
\* uniqueItems, ...) the schema_value is the value schema_path resolves to,
\* and a sentinel string when it does not resolve.
C6_OtherKeywordVerbatim ==
    (/\ Returned("get_schema_constraint_value")
     /\ FinalSegment(args.error.schema_path) # <<>>
     /\ FinalSegment(args.error.schema_path) \notin ExtractorKeywords)
    => LET location == get_value_at_path(args.schema, args.error.schema_path) IN
       IF location.some THEN result = location.value ELSE result.kind = "string"

\* C6 (amended): for any other keyword the schema_value is the string
\* "constraint: " followed by the keyword when schema_path resolves, and the
\* string "unknown constraint" when it does not.
C6_OtherKeywordPlaceholder ==
    (/\ Returned("get_schema_constraint_value")
     /\ FinalSegment(args.error.schema_path) \notin ExtractorKeywords)
    => LET location == get_value_at_path(args.schema, args.error.schema_path) IN
       IF location.some
       THEN result = String(<<"constraint: ">> \o FinalSegment(args.error.schema_path))
       ELSE result = String(<<"unknown constraint">>)

\* a format failure whose schema_path resolves to "email"
C6_Witness ==
    /\ Returned("get_schema_constraint_value")
    /\ FinalSegment(args.error.schema_path) = <<"format">>
    /\ get_value_at_path(args.schema, args.error.schema_path) = Some(String(<<"email">>))
    /\ result = String(<<"constraint: ", "format">>)

\* C7: for a failure whose schema_path ends in a keyword segment, when the
\* parent path resolves to an object, its title and description appear as
\* parent_title and parent_description (the parent of a top-level keyword
\* being the schema root); the parent's examples and default are never
\* copied and no other ancestor contributes.
C7_ParentAnnotations ==
    (/\ Returned("extract_annotations_from_error")
     /\ HasSlash(args.error.schema_path)
     /\ FinalSegment(args.error.schema_path) # <<>>)
    =>  LET parent == get_value_at_path(args.schema, ParentPath(args.error.schema_path))
            copied(key, name) ==
                /\ value_get(parent.value, name).some =>
                      (key \in DOMAIN result /\ result[key] = value_get(parent.value, name).value)
            fromParent(key, name) ==
                key \in DOMAIN result =>
                    (parent.some /\ value_get(parent.value, name) = Some(result[key]))
        IN /\ (parent.some /\ parent.value.kind = "object") =>
                  (copied("parent_title", <<"title">>)
                   /\ copied("parent_description", <<"description">>))
           /\ fromParent("parent_title", <<"title">>)
           /\ fromParent("parent_description", <<"description">>)
           /\ "parent_examples" \notin DOMAIN result
           /\ "parent_default" \notin DOMAIN result

\* C8: the classification is "unknown" exactly when schema_path is empty, and
\* the final '/'-delimited segment for every other schema_path.
C8_UnknownOnlyForEmptyPath ==
    Returned("extract_keyword_from_error") =>
        /\ (result = <<"unknown">>) <=> (args.error.schema_path = <<>>)
        /\ args.error.schema_path # <<>> => result = FinalSegment(args.error.schema_path)

\* characters of one token
CharsOf(c) == IF c \in {"é", "€"} THEN 1 ELSE Len(c)

\* number of characters of a string
RECURSIVE CharCount(_)
CharCount(s) == IF s = <<>> THEN 0 ELSE CharsOf(Head(s)) + CharCount(Tail(s))

\* C9: actual_length is the number of characters of a string instance (0 for
\* any other instance) for minLength and maxLength; actual_items is the
\* element count of an array instance (0 for any other) for minItems and
\* maxItems.
C9_ActualLengthInCharacters ==
    Returned("build_error_context") =>
        /\ args.keyword \in { <<"minLength">>, <<"maxLength">> } =>
              /\ "actual_length" \in DOMAIN result
              /\ result["actual_length"] =
                    Number(IF args.instance_value.kind = "string"
                           THEN CharCount(args.instance_value.s) ELSE 0)
        /\ args.keyword \in { <<"minItems">>, <<"maxItems">> } =>
              /\ "actual_items" \in DOMAIN result
              /\ result["actual_items"] =
                    Number(IF args.instance_value.kind = "array"
                           THEN Len(args.instance_value.items) ELSE 0)

VerboseFields ==
    {"instance_path", "schema_path", "message", "keyword", "instance_value",
     "schema_value", "context", "annotations", "suggestions"}

\* a parsable instance was given to validate_verbose and the validator rejected it
VerboseRejected ==
    /\ Returned("validate_verbose")
    /\ validator.ran
    /\ validator.errs # <<>>

\* C10: for a parsable instance the validator rejects, validate_verbose
\* returns one enriched record per error iter_errors yields, in the same
\* order, each with the instance_path, schema_path and message of the
\* validate_detailed record and with keyword, instance_value, schema_value,
\* context, annotations and suggestions present.
C10_VerboseCompleteness ==
    VerboseRejected =>
        LET detailed == validate_detailed(args.instance_json, validator.errs) IN
        /\ result.atom = "error"
        /\ DOMAIN result = {"atom", "list"}
        /\ Len(result.list) = Len(validator.errs)
        /\ detailed.atom = "error"
        /\ Len(detailed.list) = Len(validator.errs)
        /\ \A i \in 1..Len(validator.errs) :
              /\ DOMAIN result.list[i] = VerboseFields
              /\ result.list[i].instance_path = validator.errs[i].instance_path
              /\ result.list[i].schema_path = validator.errs[i].schema_path
              /\ result.list[i].message = validator.errs[i].message
              /\ result.list[i].instance_path = detailed.list[i].instance_path
              /\ result.list[i].schema_path = detailed.list[i].schema_path
              /\ result.list[i].message = detailed.list[i].message

\* two errors were enriched, one of them with a schema_path that does not
\* resolve in the schema and an instance_path that does not resolve either
C10_Witness ==
    /\ VerboseRejected
    /\ Len(result.list) = 2
    /\ \E i \in 1..2 :
          /\ ~get_value_at_path(schema, result.list[i].schema_path).some
          /\ ~get_value_at_path(args.instance_json.value, result.list[i].instance_path).some
          /\ result.list[i].schema_value = String(<<"unknown constraint">>)
          /\ result.list[i].instance_value = Null

\* the fourteen keywords with a hint of their own
HintedKeywords ==
    { <<"type">>, <<"minimum">>, <<"maximum">>, <<"minLength">>, <<"maxLength">>,
      <<"pattern">>, <<"format">>, <<"required">>, <<"minItems">>, <<"maxItems">>,
      <<"enum">>, <<"const">>, <<"uniqueItems">>, <<"multipleOf">> }

\* C11: generate_suggestions_for_error returns a non-empty sequence for every
\* keyword, schema_value and message: exactly one entry for each of the
\* fourteen recognized keywords, at least two for any other keyword.
C11_SuggestionArity ==
    Returned("generate_suggestions_for_error") =>
        /\ Len(result) >= 1
        /\ args.keyword \in HintedKeywords => Len(result) = 1
        /\ args.keyword \notin HintedKeywords => Len(result) >= 2

\* the format hint was produced for a message naming an email, with a
\* constraint value that is not a string
C11_Witness ==
    /\ Returned("generate_suggestions_for_error")
    /\ args.keyword = <<"format">>
    /\ contains(args.error.message, <<"email">>)
    /\ args.schema_value.kind = "object"
    /\ result = << <<"Use valid email format: user@domain.com">> >>

\* the four lines every unrecognized keyword gets
FixedLines(keyword, schema_value) ==
    << <<"Validation failed for '">> \o keyword \o <<"' constraint">>,
       <<"Expected: ">> \o Display(schema_value),
       <<"Check the schema documentation for this constraint">>,
       <<"Verify your data matches the expected format">> >>

EchoLine(message) == <<"Error details: ">> \o message

\* C12: for an unrecognized keyword the list is the four fixed
\* lines in order, followed by one line echoing the message exactly when
\* the message is non-empty and shorter than 200 characters.
C12_EchoUnder200Characters ==
    (Returned("generate_suggestions_for_error") /\ args.keyword \notin HintedKeywords) =>
        LET message == args.error.message
            fixed == FixedLines(args.keyword, args.schema_value) IN
        result = IF message # <<>> /\ CharCount(message) < 200
                 THEN Append(fixed, EchoLine(message))
                 ELSE fixed

\* the draft identifiers, in the order they are listed
DraftIdentifiers ==
    << [draft |-> "draft4", ids |-> { <<"draft-04">>, <<"draft", "/", "04">> }],
       [draft |-> "draft6", ids |-> { <<"draft-06">>, <<"draft", "/", "06">> }],
       [draft |-> "draft7", ids |-> { <<"draft-07">>, <<"draft", "/", "07">> }],
       [draft |-> "draft201909", ids |-> { <<"2019-09">> }],
       [draft |-> "draft202012", ids |-> { <<"2020-12">> }] >>

Drafts == { DraftIdentifiers[i].draft : i \in DOMAIN DraftIdentifiers }

\* the string holds an identifier of the i-th draft
Names(url, i) == \E id \in DraftIdentifiers[i].ids : contains(url, id)

\* the draft a "$schema" string stands for: that of the first listed
\* identifier it holds, the latest draft when it holds none
DraftNamed(url) ==
    IF \E i \in DOMAIN DraftIdentifiers : Names(url, i)
    THEN DraftIdentifiers[CHOOSE i \in DOMAIN DraftIdentifiers :
                             /\ Names(url, i)
                             /\ \A j \in 1..(i - 1) : ~Names(url, j)].draft
    ELSE "draft202012"

\* C13: draft detection is total on parsed schemas: for every schema value
\* the reply is ok with exactly one draft.  A string "$schema" holding
\* draft-04 or draft/04 gives draft4, draft-06 or draft/06 draft6, draft-07
\* or draft/07 draft7, 2019-09 draft201909, 2020-12 draft202012; an absent,
\* non-string or unrecognized "$schema" gives draft202012.  The reply is an
\* error only when the schema text does not parse.
C13_DraftDetection ==
    Returned("detect_draft_from_schema") =>
        LET text == args.schema_json IN
        /\ result.atom = "error" <=> ~text.parses
        /\ ~text.parses =>
              /\ result.type = "json_parse_error"
              /\ result.message = "Invalid JSON"
        /\ text.parses =>
              /\ DOMAIN result = {"atom", "draft"}
              /\ result.atom = "ok"
              /\ result.draft \in Drafts
              /\ LET v == text.value
                     is_string == /\ v.kind = "object"
                                  /\ <<"$schema">> \in DOMAIN v.fields
                                  /\ v.fields[<<"$schema">>].kind = "string"
                 IN result.draft = IF is_string
                                   THEN DraftNamed(v.fields[<<"$schema">>].s)
                                   ELSE "draft202012"

\* draft7 was detected from the slash form of the identifier
C13_Witness ==
    /\ Returned("detect_draft_from_schema")
    /\ args.schema_json.parses
    /\ args.schema_json.value.kind = "object"
    /\ <<"$schema">> \in DOMAIN args.schema_json.value.fields
    /\ args.schema_json.value.fields[<<"$schema">>] =
          String(<<"http:", "/", "/", "json-schema.org", "/", "draft", "/", "07", "/",
                   "schema#">>)
    /\ result = [atom |-> "ok", draft |-> "draft7"]

\* an entry point has returned for an instance text that does not parse
ReturnedUnparsable(f) == Returned(f) /\ ~args.instance_json.parses

\* an entry point has returned for an instance text that parses
ReturnedParsable(f) == Returned(f) /\ args.instance_json.parses

\* C14: for an instance text that does not parse, valid reports no parse
\* error and returns the validator's verdict on null; validate returns
\* error; validate_detailed and validate_verbose return json_parse_error
\* without running the validator or the enrichment.  For a text that parses,
\* valid returns true exactly when validate, validate_detailed and
\* validate_verbose return ok.
C14_ParseFailureHandling ==
    /\ ReturnedUnparsable("valid") =>
          /\ result \in BOOLEAN
          /\ validator.ran
          /\ validator.instance = [kind |-> "null"]
          /\ result = (validator.errs = <<>>)
    /\ ReturnedUnparsable("validate") =>
          /\ result = [atom |-> "error"]
          /\ ~validator.ran
    /\ (ReturnedUnparsable("validate_detailed") \/ ReturnedUnparsable("validate_verbose")) =>
          /\ result = [atom |-> "error", reason |-> "json_parse_error"]
          /\ ~validator.ran
    /\ ReturnedParsable("valid") =>
          /\ validator.ran
          /\ validator.instance = args.instance_json.value
          /\ result = (validator.errs = <<>>)
          /\ result = (validate(args.instance_json, validator.errs) = [atom |-> "ok"])
          /\ result = (validate_detailed(args.instance_json, validator.errs)
                          = [atom |-> "ok"])
          /\ result = (validate_verbose(schema, args.instance_json, validator.errs)
                          = [atom |-> "ok"])
    /\ (\/ ReturnedParsable("validate")
        \/ ReturnedParsable("validate_detailed")
        \/ ReturnedParsable("validate_verbose")) =>
          /\ validator.ran
          /\ validator.instance = args.instance_json.value
          /\ (result = [atom |-> "ok"]) = (validator.errs = <<>>)

\* valid answered true for a text that does not parse: the validator
\* accepted null
C14_Witness ==
    /\ ReturnedUnparsable("valid")
    /\ validator = [ran |-> TRUE, instance |-> [kind |-> "null"], errs |-> <<>>]
    /\ result = TRUE

\* the schema, the instance and the raw failure of the minLength scenario
ScenarioSchema ==
    Object((<<"type">> :> String(<<"object">>))
           @@ (<<"required">> :> Array(<< String(<<"name">>) >>))
           @@ (<<"properties">> :>
                 Object(<<"name">> :>
                   Object((<<"type">> :> String(<<"string">>))
                          @@ (<<"minLength">> :> Number(2))))))

ScenarioInstance == Object(<<"name">> :> String(<<"A">>))

ScenarioInstancePath == <<"/", "name">>

ScenarioSchemaPath == <<"/", "properties", "/", "name", "/", "minLength">>

\* the keywords whose schema_value is the value at schema_path
ValueAtPathKeywords ==
    { <<"minimum">>, <<"maximum">>, <<"minLength">>, <<"maxLength">>, <<"minItems">>,
      <<"maxItems">>, <<"const">>, <<"enum">>, <<"multipleOf">> }

\* the i-th error is the raw failure of the scenario, in the scenario
InScenario(i) ==
    /\ schema = ScenarioSchema
    /\ args.instance_json.value = ScenarioInstance
    /\ validator.errs[i].instance_path = ScenarioInstancePath
    /\ validator.errs[i].schema_path = ScenarioSchemaPath

\* C15: for the schema {"type":"object","required":["name"],"properties":
\* {"name":{"type":"string","minLength":2}}}, the instance {"name":"A"} and
\* the raw failure at /name against /properties/name/minLength, the enriched
\* record has keyword minLength, instance_value "A", schema_value 2,
\* context.actual_length 1, context.minimum_length 2 and the suggestion
\* "String must be at least 2 characters".  For minimum, maximum, minLength,
\* maxLength, minItems, maxItems, const, enum and multipleOf the schema_value
\* is the value schema_path resolves to, unchanged.
C15_MinLengthEndToEnd ==
    VerboseRejected =>
        \A i \in 1..Len(validator.errs) :
            LET record == result.list[i]
                location == get_value_at_path(schema, validator.errs[i].schema_path)
            IN /\ InScenario(i) =>
                     /\ record.keyword = <<"minLength">>
                     /\ record.instance_value = String(<<"A">>)
                     /\ record.schema_value = Number(2)
                     /\ record.context["actual_length"] = Number(1)
                     /\ record.context["minimum_length"] = Number(2)
                     /\ \E k \in 1..Len(record.suggestions) :
                           record.suggestions[k] =
                              <<"String must be at least ", "2", " characters">>
               /\ (/\ FinalSegment(validator.errs[i].schema_path) \in ValueAtPathKeywords
                   /\ location.some) =>
                     record.schema_value = location.value

\* the scenario's failure was enriched, second of two errors
C15_Witness ==
    /\ VerboseRejected
    /\ Len(validator.errs) = 2
    /\ InScenario(2)
    /\ result.list[2].keyword = <<"minLength">>
    /\ result.list[2].schema_value = Number(2)
    /\ result.list[2].context["actual_length"] = Number(1)

\* the path begins with exactly two '/'
TwoLeadingSlashes(path) ==
    /\ Len(path) >= 3
    /\ path[1] = "/"
    /\ path[2] = "/"
    /\ path[3] # "/"

\* C16: the resolver strips exactly one leading '/' before splitting: for a
\* path such as "//a" the first segment consumed is the empty string, so the
\* result is v[""]["a"], None when v has no "" key, and never v["a"].
C16_SingleSlashStripped ==
    (Returned("get_value_at_path") /\ TwoLeadingSlashes(args.path)) =>
        LET segments == split(Tail(args.path)) IN
        /\ segments[1] = <<>>
        /\ result = Reach(args.value, segments, Len(segments))

\* C17: for a schema_path whose final segment is type, pattern or required
\* and that resolves in the schema, the schema_value is the value schema_path
\* resolves to; the fallbacks "unknown", "unknown pattern" and [] are not
\* returned for a path that resolves.
C17_UpOneLevelAgreesWithPath ==
    (/\ Returned("get_schema_constraint_value")
     /\ FinalSegment(args.error.schema_path) \in UpOneLevelKeywords
     /\ get_value_at_path(args.schema, args.error.schema_path).some)
    => result = get_value_at_path(args.schema, args.error.schema_path).value

====
